---------------------------- MODULE Spec2Model ----------------------------
(***************************************************************************)
(* Model of the fact-check agent (app/agent.py) and of the MCP tool server *)
(* behind its two tools (mcp_tools/mcp_server.py).                         *)
(*                                                                         *)
(* One run of run_fact_check_agent is a state machine: the ReAct executor  *)
(* built at agent.py:223-229 asks the model for a turn, runs the requested *)
(* tool and records the (action, observation) step, until the model gives  *)
(* a final answer, the iteration limit is reached or the backend fails;    *)
(* then agent.py:234-314 turns the executor's result into the response or  *)
(* raises.                                                                 *)
(*                                                                         *)
(* Strings the code only compares or copies are modelled as strings.  The  *)
(* final answer, which the code upper-cases and searches for phrases, is a *)
(* sequence of tokens; a token is a piece of text that no searched phrase  *)
(* straddles.  A JSON document is modelled by the value json.loads gives   *)
(* for it (json.dumps followed by json.loads returns the value dumped).    *)
(***************************************************************************)
EXTENDS Integers, Sequences, FiniteSets, TLC

VARIABLES
    pc,            \* "running" | "returned" | "raised" (and the phases of the function specifications)
    steps,         \* the executor's intermediate steps: <<[tool, observation]>>
    invoked,       \* log of the tool functions actually run: <<[tool, outcome]>>
    mcp_session,   \* the global mcp_session: "None" | "created" | "initialized"
    stop,          \* why the executor stopped: "none" | "final" | "limit" | "backend" | "tool" | "parse"
    has_steps,     \* whether the executor's result carries the key "intermediate_steps"
    output,        \* result["output"]: the final answer, a sequence of tokens
    result,        \* the dictionary run_fact_check_agent returns
    failure,       \* the exception run_fact_check_agent raises
    arg,           \* argument of the function applied (function specifications)
    ret,           \* its value
    mcp_process,   \* the global mcp_process and the state of its subprocess: "None" | "running" | "exited"
    sessions,      \* the ClientSession objects constructed so far: <<[by, initialized, close_attempted, closed]>>
    session_id,    \* the object mcp_session refers to: an index of sessions, 0 for None
    calls,         \* log of the calls of the session and server functions, with what they returned
    runs           \* concurrent invocations of run_fact_check_agent: where each one is

vars == <<pc, steps, invoked, mcp_session, stop, has_steps, output, result, failure, arg, ret,
          mcp_process, sessions, session_id, calls, runs>>

\* The variables only the specifications of the session and of the server
\* subprocess change, and their values where these are not followed.
lifecycle == <<mcp_process, sessions, session_id, calls, runs>>

LifecycleIdle ==
    /\ mcp_process = "None"
    /\ sessions = <<>>
    /\ session_id = 0
    /\ calls = <<>>
    /\ runs = <<>>

(***************************************************************************)
(* Bounds of the model and constants of the program.                       *)
(***************************************************************************)
\* Turns in which the model may request a tool.  Past them the model gives its
\* final answer or keeps up an unbroken run of unparseable turns.
MaxFreeTurns == 3
\* Longest final answer, in tokens, given to the verdict function.
MaxTokens == 4
\* Longest list of results, besides the long ones, given to the construction of the sources.
MaxListLen == 2
\* Longest list of intermediate steps given to the code after invoke on its own.
MaxRunLen == 3
\* Concurrent invocations of run_fact_check_agent, and tool calls of each.
MaxRuns == 2
MaxToolCalls == 2
\* Calls of the server and session functions in one life of the application.
MaxCalls == 4

\* AgentExecutor(max_iterations=20)
max_iterations == 20
\* final_sources = unique_sources[:10]
MaxSources == 10

Last(s) == s[Len(s)]

(***************************************************************************)
(* JSON values and observations.                                           *)
(***************************************************************************)
\* dict.get(key) of a key the dictionary does not have
NoKey == "<no key>"

\* An entry of a "results" list: a dictionary with optional title and url, or
\* something that is not a dictionary.
Rec(t, u) == [dict |-> TRUE, title |-> t, url |-> u]
NotADict == [dict |-> FALSE, title |-> NoKey, url |-> NoKey]

\* The text a tool returns, as json.loads sees it: json = FALSE when it is not
\* a JSON object; has_results = FALSE when the object has no key "results".
JsonObs(err, hasres, rs) ==
    [json |-> TRUE, text |-> "", error |-> err, has_results |-> hasres, results |-> rs]
TextObs(t) ==
    [json |-> FALSE, text |-> t, error |-> NoKey, has_results |-> FALSE, results |-> <<>>]

\* json.dumps({"error": msg, "results": [], "count": 0})
ErrorObs(msg) == JsonObs(msg, TRUE, <<>>)

(***************************************************************************)
(* The MCP server: mcp_tools/mcp_server.py.                                *)
(***************************************************************************)
\* What the search provider answers for one request: an entry with optional
\* title and link (the NewsAPI article's "url" plays the part of "link").
Item(t, l) == [title |-> t, link |-> l]

\* {"title": item.get("title", ""), "url": item.get("link", ""), ...}: the
\* fields the agent does not read (type, snippet, position, source) are left out.
ServerRecord(item) ==
    Rec(IF item.title = NoKey THEN "" ELSE item.title,
        IF item.link = NoKey THEN "" ELSE item.link)

RECURSIVE ServerResults(_)
ServerResults(items) ==
    IF items = <<>> THEN <<>>
    ELSE <<ServerRecord(Head(items))>> \o ServerResults(Tail(items))

\* One invocation of a tool, as the environment decides it:
\*   query  the action input the model gave
\*   kind   "ok"           the provider answers with items
\*          "init_failed"  ClientSession.initialize raises in get_mcp_session
\*          "call_failed"  session.call_tool raises (timeout, transport error)
\*          "no_content"   the call returns a result without content
\*          "no_key"       the server has no API key for the provider
\*          "http_failed"  the server's request to the provider raises
Call(q, k, items) == [query |-> q, kind |-> k, items |-> items]

\* str(e) of the exception of a failed invocation
ErrorMessage(kind) ==
    CASE kind = "init_failed" -> "initialize failed"
      [] kind = "call_failed" -> "timed out"
      [] kind = "http_failed" -> "connection refused"
      [] OTHER -> ""

\* mcp_server.web_search
mcp_web_search(call) ==
    IF call.kind = "no_key" THEN ErrorObs("SERPAPI_API_KEY not configured")
    ELSE IF call.kind = "http_failed" THEN ErrorObs(ErrorMessage(call.kind))
    ELSE JsonObs(NoKey, TRUE, ServerResults(call.items))

\* mcp_server.news_search
mcp_news_search(call) ==
    IF call.kind = "no_key" THEN ErrorObs("NEWSAPI_API_KEY not configured")
    ELSE IF call.kind = "http_failed" THEN ErrorObs(ErrorMessage(call.kind))
    ELSE JsonObs(NoKey, TRUE, ServerResults(call.items))

\* mcp_server.call_tool: the text of the TextContent it returns
call_tool(name, call) ==
    IF name = "web_search" THEN
        IF call.query = "" THEN JsonObs("query parameter required", FALSE, <<>>)
        ELSE mcp_web_search(call)
    ELSE IF name = "news_search" THEN
        IF call.query = "" THEN JsonObs("query parameter required", FALSE, <<>>)
        ELSE mcp_news_search(call)
    ELSE JsonObs("Unknown tool", FALSE, <<>>)

(***************************************************************************)
(* The MCP client session and the two tools: app/agent.py.                 *)
(***************************************************************************)
\* get_mcp_session: the global after the call.  The session is stored before
\* initialize() is awaited, so a failed initialize leaves it "created".
SessionAfterGet(session, call) ==
    IF session # "None" THEN session
    ELSE IF call.kind = "init_failed" THEN "created"
    ELSE "initialized"

\* What a tool function does with one invocation: returns a text, or lets an
\* exception out.
Returned(obs) == [raised |-> FALSE, value |-> obs, msg |-> ""]
Raised(m) == [raised |-> TRUE, value |-> TextObs(""), msg |-> m]

\* The same body without its except clause.
ToolBodyUncaught(name, call) ==
    IF call.kind \in {"init_failed", "call_failed"}
    THEN Raised(ErrorMessage(call.kind))
    ELSE IF call.kind = "no_content"
    THEN Returned(ErrorObs("No content returned"))
    ELSE Returned(call_tool(name, call))

\* The body of both tools: try: session, call_tool, content[0].text
\* except Exception as e: json.dumps({"error": str(e), ...})
ToolBody(name, call) ==
    IF call.kind \in {"init_failed", "call_failed"}
    THEN Returned(ErrorObs(ErrorMessage(call.kind)))
    ELSE IF call.kind = "no_content"
    THEN Returned(ErrorObs("No content returned"))
    ELSE Returned(call_tool(name, call))

\* @tool web_search
web_search(call) == ToolBody("web_search", call)

\* @tool news_search
news_search(call) == ToolBody("news_search", call)

(***************************************************************************)
(* run_fact_check_agent, after the executor returned: agent.py:234-314.    *)
(***************************************************************************)
\* The loop over intermediate_steps (agent.py:242-259), one step at a time.
\* acc holds web_search_called, news_search_called, web_results, news_results.
\* json.loads raises on a text that is no JSON, the bare except passes, and the
\* results seen before stay; obs_data.get("results", []) is [] without the key.
ScanInit ==
    [web_search_called |-> FALSE, news_search_called |-> FALSE,
     web_results |-> <<>>, news_results |-> <<>>]

ObsResults(obs) == IF obs.has_results THEN obs.results ELSE <<>>

\* The step of the loop counting a tool as called only when its observation
\* is a JSON object without the key "error".
Succeeded(obs) == obs.json /\ obs.error = NoKey

ScanStepSuccessOnly(acc, step) ==
    IF step.tool = "web_search" THEN
        [acc EXCEPT !.web_search_called = @ \/ Succeeded(step.observation),
                    !.web_results = IF step.observation.json
                                    THEN ObsResults(step.observation) ELSE @]
    ELSE IF step.tool = "news_search" THEN
        [acc EXCEPT !.news_search_called = @ \/ Succeeded(step.observation),
                    !.news_results = IF step.observation.json
                                     THEN ObsResults(step.observation) ELSE @]
    ELSE acc

\* The step of the loop counting news_search only once web_search was seen.
ScanStepOrdered(acc, step) ==
    IF step.tool = "web_search" THEN
        [acc EXCEPT !.web_search_called = TRUE,
                    !.web_results = IF step.observation.json
                                    THEN ObsResults(step.observation) ELSE @]
    ELSE IF step.tool = "news_search" THEN
        [acc EXCEPT !.news_search_called = @ \/ acc.web_search_called,
                    !.news_results = IF step.observation.json
                                     THEN ObsResults(step.observation) ELSE @]
    ELSE acc

ScanStep(acc, step) ==
    IF step.tool = "web_search" THEN
        [acc EXCEPT !.web_search_called = TRUE,
                    !.web_results = IF step.observation.json
                                    THEN ObsResults(step.observation) ELSE @]
    ELSE IF step.tool = "news_search" THEN
        [acc EXCEPT !.news_search_called = TRUE,
                    !.news_results = IF step.observation.json
                                     THEN ObsResults(step.observation) ELSE @]
    ELSE acc

RECURSIVE ScanSteps(_, _)
ScanSteps(acc, isteps) ==
    IF isteps = <<>> THEN acc
    ELSE ScanSteps(ScanStep(acc, Head(isteps)), Tail(isteps))

\* The two checks of agent.py:261-269: the message of the ValueError, "" for none.
HardRuleWebOnly(web_called, news_called) ==
    IF ~web_called THEN "HARD RULE FAILED: web_search tool must be called."
    ELSE ""

HardRuleNewsOnly(web_called, news_called) ==
    IF ~news_called THEN "HARD RULE FAILED: news_search tool must be called."
    ELSE ""

HardRule(web_called, news_called) ==
    IF ~web_called THEN "HARD RULE FAILED: web_search tool must be called."
    ELSE IF ~news_called THEN "HARD RULE FAILED: news_search tool must be called."
    ELSE ""

(***************************************************************************)
(* The verdict: agent.py:271-280.                                          *)
(***************************************************************************)
Tokens ==
    {"VERDICT:", "Verdict:", " ", "Likely True", "LIKELY TRUE",
     "Likely False", "likely false", "Uncertain", "evidence"}

\* The text the executor gives as output when it stops on the iteration limit.
StoppedOutput == <<"Agent stopped due to iteration limit or time limit.">>

\* str.upper, token by token
UpperToken(t) ==
    CASE t \in {"VERDICT:", "Verdict:"} -> "VERDICT:"
      [] t \in {"Likely True", "LIKELY TRUE"} -> "LIKELY TRUE"
      [] t \in {"Likely False", "likely false"} -> "LIKELY FALSE"
      [] t = "Uncertain" -> "UNCERTAIN"
      [] t = "evidence" -> "EVIDENCE"
      [] t = "Agent stopped due to iteration limit or time limit."
           -> "AGENT STOPPED DUE TO ITERATION LIMIT OR TIME LIMIT."
      [] OTHER -> t

Upper(text) == [i \in 1..Len(text) |-> UpperToken(text[i])]

\* phrase in text
Contains(text, phrase) ==
    \E i \in 1..(Len(text) - Len(phrase) + 1) :
        SubSeq(text, i, i + Len(phrase) - 1) = phrase

\* The chain with the branches for Likely True and Likely False exchanged.
VerdictFalseFirst(out) ==
    LET output_upper == Upper(out) IN
    IF Contains(output_upper, <<"VERDICT:", " ", "LIKELY FALSE">>)
       \/ Contains(output_upper, <<"VERDICT:", "LIKELY FALSE">>)
    THEN "Likely False"
    ELSE IF Contains(output_upper, <<"VERDICT:", " ", "LIKELY TRUE">>)
            \/ Contains(output_upper, <<"VERDICT:", "LIKELY TRUE">>)
    THEN "Likely True"
    ELSE "Uncertain"

Verdict(out) ==
    LET output_upper == Upper(out) IN
    IF Contains(output_upper, <<"VERDICT:", " ", "LIKELY TRUE">>)
       \/ Contains(output_upper, <<"VERDICT:", "LIKELY TRUE">>)
    THEN "Likely True"
    ELSE IF Contains(output_upper, <<"VERDICT:", " ", "LIKELY FALSE">>)
            \/ Contains(output_upper, <<"VERDICT:", "LIKELY FALSE">>)
    THEN "Likely False"
    ELSE "Uncertain"

(***************************************************************************)
(* The sources: agent.py:282-307.                                          *)
(***************************************************************************)
\* isinstance(result, dict) alone
HasUrlAnyDict(r) == r.dict

\* isinstance(result, dict) and result.get("url")
HasUrl(r) == r.dict /\ r.url # NoKey /\ r.url # ""

Source(r, type) ==
    [title |-> IF r.title = NoKey THEN "Untitled" ELSE r.title,
     url |-> r.url, type |-> type]

\* One of the two loops that fill all_sources
RECURSIVE SourcesOf(_, _)
SourcesOf(results, type) ==
    IF results = <<>> THEN <<>>
    ELSE IF HasUrl(Head(results))
         THEN <<Source(Head(results), type)>> \o SourcesOf(Tail(results), type)
         ELSE SourcesOf(Tail(results), type)

AllSources(web_results, news_results) ==
    SourcesOf(web_results, "web") \o SourcesOf(news_results, "news")

\* The loop over all_sources with seen_urls
RECURSIVE UniqueFrom(_, _, _)
UniqueFrom(all_sources, seen_urls, unique_sources) ==
    IF all_sources = <<>> THEN unique_sources
    ELSE LET source == Head(all_sources) IN
         IF source.url \notin seen_urls
         THEN UniqueFrom(Tail(all_sources), seen_urls \cup {source.url},
                         Append(unique_sources, source))
         ELSE UniqueFrom(Tail(all_sources), seen_urls, unique_sources)

\* The loop without the test on seen_urls.
UniqueSourcesKeepAll(all_sources) == all_sources

UniqueSources(all_sources) == UniqueFrom(all_sources, {}, <<>>)

\* unique_sources[1:10] in place of unique_sources[:10]
TruncateSkipFirst(unique_sources) ==
    SubSeq(unique_sources, 2, IF Len(unique_sources) < MaxSources
                              THEN Len(unique_sources) ELSE MaxSources)

\* unique_sources[:10]
Truncate(unique_sources) ==
    SubSeq(unique_sources, 1, IF Len(unique_sources) < MaxSources
                              THEN Len(unique_sources) ELSE MaxSources)

FinalSources(web_results, news_results) ==
    Truncate(UniqueSources(AllSources(web_results, news_results)))

\* What run_fact_check_agent does with the executor's result: the dictionary
\* it returns, or the ValueError it raises.
NoResult == [verdict |-> "", explanation |-> <<>>, sources |-> <<>>, tools_used |-> <<>>]
NoFailure == [kind |-> "", msg |-> ""]

Respond(out, intermediate_steps) ==
    LET scan == ScanSteps(ScanInit, intermediate_steps)
        broken == HardRule(scan.web_search_called, scan.news_search_called)
    IN  IF broken # ""
        THEN [pc |-> "raised", result |-> NoResult,
              failure |-> [kind |-> "ValueError", msg |-> broken]]
        ELSE [pc |-> "returned",
              result |-> [verdict |-> Verdict(out),
                          explanation |-> out,
                          sources |-> FinalSources(scan.web_results, scan.news_results),
                          tools_used |-> <<"web_search", "news_search">>],
              failure |-> NoFailure]

(***************************************************************************)
(* The environment of one run: what the model emits and what the search    *)
(* providers answer, drawn from small sets.                                *)
(***************************************************************************)
ToolNames == {"web_search", "news_search"}

WebLong ==
    <<Item("w1", "u1"), Item("w2", "u2"), Item("w3", "u3"),
      Item("w4", "u4"), Item("w5", "u5"), Item("w6", "u6")>>
WebMixed ==
    <<Item("a", "ua"), Item(NoKey, "ub"), Item("c", NoKey), Item("a2", "ua")>>
NewsLong ==
    <<Item("n6", "u6"), Item("n7", "u7"), Item("n8", "u8"),
      Item("n9", "u9"), Item("n10", "u10"), Item("n11", "u11")>>
NewsMixed ==
    <<Item("b", "ub"), Item("", "uc"), Item("d", "")>>

Answers(tool) ==
    IF tool = "web_search" THEN {WebLong, WebMixed} ELSE {NewsLong, NewsMixed}

FailureKinds == {"call_failed", "no_content", "no_key", "http_failed"}

\* The invocations of a tool the environment can produce.  initialize() is
\* only awaited when there is no session yet.
Calls(tool, session) ==
    {Call("q", "ok", items) : items \in Answers(tool)}
    \cup {Call("q", k, <<>>) : k \in FailureKinds}
    \cup {Call("", "ok", <<>>)}
    \cup (IF session = "None" THEN {Call("q", "init_failed", <<>>)} ELSE {})

\* Names the model may ask for that are no tool of the executor.
UnknownNames == {"calculator"}

\* Final answers of the model.
FinalAnswers ==
    {<<"VERDICT:", " ", "Likely True">>,
     <<"Verdict:", "Likely False">>,
     <<"evidence", "likely false">>}

\* The step the executor records for a turn it could not parse
\* (handle_parsing_errors=True) and for a tool it does not have.
\* handle_parsing_errors=False: the parser's exception leaves invoke.
ParsingErrorUnhandled == Raised("Could not parse LLM output")

\* handle_parsing_errors=True: the parser's exception becomes an observation.
ParsingError == Returned(TextObs("Invalid or incomplete response"))

ParseErrorStep ==
    [tool |-> "_Exception", observation |-> ParsingError.value]
InvalidToolStep(name) ==
    [tool |-> name, observation |-> TextObs("is not a valid tool")]

(***************************************************************************)
(* The run: agent_executor.invoke and what follows it.                     *)
(***************************************************************************)
Init ==
    /\ pc = "running"
    /\ steps = <<>>
    /\ invoked = <<>>
    /\ mcp_session = "None"
    /\ stop = "none"
    /\ has_steps = FALSE
    /\ output = <<>>
    /\ result = NoResult
    /\ failure = NoFailure
    /\ arg = <<>>
    /\ ret = <<>>
    /\ LifecycleIdle

\* An executor that keeps asking whatever the number of iterations.
CanTurnUnbounded == pc = "running"

\* The executor asks the model for another turn while iterations < max_iterations.
CanTurn == pc = "running" /\ Len(steps) < max_iterations

\* The model asks for one of the two tools; the executor runs it and records
\* the step.  An exception out of the tool ends invoke and the run.
ToolTurn(tool, call) ==
    /\ CanTurn
    /\ Len(steps) < MaxFreeTurns
    /\ LET r == IF tool = "web_search" THEN web_search(call) ELSE news_search(call)
       IN  /\ invoked' = Append(invoked, [tool |-> tool, call |-> call])
           /\ mcp_session' = SessionAfterGet(mcp_session, call)
           /\ IF r.raised
              THEN /\ pc' = "raised"
                   /\ stop' = "tool"
                   /\ failure' = [kind |-> "Exception", msg |-> r.msg]
                   /\ steps' = steps
              ELSE /\ steps' = Append(steps, [tool |-> tool, observation |-> r.value])
                   /\ UNCHANGED <<pc, stop, failure>>
    /\ UNCHANGED <<has_steps, output, result, arg, ret>>
    /\ UNCHANGED lifecycle

\* The model asks for a tool the executor does not have: no tool runs, the
\* step carries the executor's own observation.
UnknownToolTurn(name) ==
    /\ CanTurn
    /\ Len(steps) < MaxFreeTurns
    /\ steps' = Append(steps, InvalidToolStep(name))
    /\ UNCHANGED <<pc, invoked, mcp_session, stop, has_steps, output, result, failure, arg, ret>>
    /\ UNCHANGED lifecycle

\* The model's text has neither an action nor a final answer.
UnparseableTurn ==
    /\ CanTurn
    /\ IF Len(steps) < MaxFreeTurns THEN TRUE ELSE Last(steps).tool = "_Exception"
    /\ IF ParsingError.raised
       THEN /\ pc' = "raised"
            /\ stop' = "parse"
            /\ failure' = [kind |-> "OutputParserException", msg |-> ParsingError.msg]
            /\ steps' = steps
       ELSE /\ steps' = Append(steps, ParseErrorStep)
            /\ UNCHANGED <<pc, stop, failure>>
    /\ UNCHANGED <<invoked, mcp_session, has_steps, output, result, arg, ret>>
    /\ UNCHANGED lifecycle

\* invoke has returned {"output": out, ...}; agent.py:234-314 runs on it.
\* intermediate_steps = result.get("intermediate_steps", []): the executor puts
\* the key in its result only when it is set up to return the steps, which the
\* constructor call of agent.py:223-229 does not ask for; both cases are kept.
Finish(why, out, with_steps) ==
    LET intermediate_steps == IF with_steps THEN steps ELSE <<>>
        r == Respond(out, intermediate_steps)
    IN  /\ stop' = why
        /\ output' = out
        /\ has_steps' = with_steps
        /\ pc' = r.pc
        /\ result' = r.result
        /\ failure' = r.failure
        /\ UNCHANGED <<steps, invoked, mcp_session, arg, ret>>
        /\ UNCHANGED lifecycle

\* The model gives a final answer: the executor returns it at once.
FinalAnswer(out, with_steps) ==
    /\ CanTurn
    /\ Finish("final", out, with_steps)

\* iterations = max_iterations: the executor returns its stopped response.
IterationLimit(with_steps) ==
    /\ pc = "running"
    /\ Len(steps) >= max_iterations
    /\ Finish("limit", StoppedOutput, with_steps)

\* The call to the model raises: the exception leaves run_fact_check_agent.
BackendFails ==
    /\ CanTurn
    /\ pc' = "raised"
    /\ stop' = "backend"
    /\ failure' = [kind |-> "Exception", msg |-> "backend unavailable"]
    /\ UNCHANGED <<steps, invoked, mcp_session, has_steps, output, result, arg, ret>>
    /\ UNCHANGED lifecycle

Next ==
    \/ \E tool \in ToolNames : \E call \in Calls(tool, mcp_session) : ToolTurn(tool, call)
    \/ \E name \in UnknownNames : UnknownToolTurn(name)
    \/ UnparseableTurn
    \/ \E out \in FinalAnswers : \E with_steps \in BOOLEAN : FinalAnswer(out, with_steps)
    \/ \E with_steps \in BOOLEAN : IterationLimit(with_steps)
    \/ BackendFails

Spec == Init /\ [][Next]_vars

(***************************************************************************)
(* The verdict function on its own: every text of at most MaxTokens tokens.*)
(***************************************************************************)
Texts == UNION {[1..n -> Tokens] : n \in 0..MaxTokens}

InitVerdict ==
    /\ pc = "classify"
    /\ output \in Texts
    /\ steps = <<>>
    /\ invoked = <<>>
    /\ mcp_session = "None"
    /\ stop = "none"
    /\ has_steps = FALSE
    /\ result = NoResult
    /\ failure = NoFailure
    /\ arg = <<>>
    /\ ret = ""
    /\ LifecycleIdle

Classify ==
    /\ pc = "classify"
    /\ ret' = Verdict(output)
    /\ pc' = "classified"
    /\ UNCHANGED <<steps, invoked, mcp_session, stop, has_steps, output, result, failure, arg>>
    /\ UNCHANGED lifecycle

NextVerdict == Classify

SpecVerdict == InitVerdict /\ [][NextVerdict]_vars

(***************************************************************************)
(* The construction of the sources on its own: agent.py:282-307 applied to *)
(* two lists of results, and applied again to what it returned.            *)
(***************************************************************************)
RecPool ==
    {Rec("a", "ua"), Rec("b", "ua"), Rec(NoKey, "ub"),
     Rec("c", ""), Rec("d", NoKey), NotADict}

ShortLists == UNION {[1..n -> RecPool] : n \in 0..MaxListLen}

ResultLists ==
    ShortLists
    \cup {ServerResults(WebLong), ServerResults(NewsLong),
          ServerResults(WebLong) \o <<NotADict, Rec("x", "u1"), Rec("y", "")>>}

\* The sources of one type, as entries of a results list again.
RECURSIVE AsResults(_, _)
AsResults(sources, type) ==
    IF sources = <<>> THEN <<>>
    ELSE IF Head(sources).type = type
         THEN <<Rec(Head(sources).title, Head(sources).url)>>
              \o AsResults(Tail(sources), type)
         ELSE AsResults(Tail(sources), type)

InitNorm ==
    /\ pc = "normalize"
    /\ arg \in [web_results : ResultLists, news_results : ResultLists]
    /\ ret = <<>>
    /\ steps = <<>>
    /\ invoked = <<>>
    /\ mcp_session = "None"
    /\ stop = "none"
    /\ has_steps = FALSE
    /\ output = <<>>
    /\ result = NoResult
    /\ failure = NoFailure
    /\ LifecycleIdle

Normalize ==
    /\ pc = "normalize"
    /\ ret' = <<FinalSources(arg.web_results, arg.news_results)>>
    /\ pc' = "normalized"
    /\ UNCHANGED <<steps, invoked, mcp_session, stop, has_steps, output, result, failure, arg>>
    /\ UNCHANGED lifecycle

Renormalize ==
    /\ pc = "normalized"
    /\ ret' = Append(ret, FinalSources(AsResults(ret[1], "web"), AsResults(ret[1], "news")))
    /\ pc' = "renormalized"
    /\ UNCHANGED <<steps, invoked, mcp_session, stop, has_steps, output, result, failure, arg>>
    /\ UNCHANGED lifecycle

NextNorm == Normalize \/ Renormalize

SpecNorm == InitNorm /\ [][NextNorm]_vars

(***************************************************************************)
(* The usage check on its own: agent.py:237-269 applied to the steps of    *)
(* two runs.                                                               *)
(***************************************************************************)
\* Steps a run may have recorded: a failed web_search, a news_search with a
\* result, a turn that asked for no tool.
RuleSteps ==
    {[tool |-> "web_search", observation |-> ErrorObs("timed out")],
     [tool |-> "news_search", observation |-> JsonObs(NoKey, TRUE, <<Rec("b", "ub")>>)],
     ParseErrorStep}

RuleRuns == UNION {[1..n -> RuleSteps] : n \in 0..MaxRunLen}

\* The flags after the loop, through the two checks: "" when the run is accepted.
Eligibility(intermediate_steps) ==
    LET scan == ScanSteps(ScanInit, intermediate_steps)
    IN  HardRule(scan.web_search_called, scan.news_search_called)

InitRule ==
    /\ pc = "check"
    /\ arg \in [first : RuleRuns, second : RuleRuns]
    /\ ret = <<>>
    /\ steps = <<>>
    /\ invoked = <<>>
    /\ mcp_session = "None"
    /\ stop = "none"
    /\ has_steps = TRUE
    /\ output = <<>>
    /\ result = NoResult
    /\ failure = NoFailure
    /\ LifecycleIdle

CheckUsage ==
    /\ pc = "check"
    /\ ret' = <<Eligibility(arg.first), Eligibility(arg.second)>>
    /\ pc' = "checked"
    /\ UNCHANGED <<steps, invoked, mcp_session, stop, has_steps, output, result, failure, arg>>
    /\ UNCHANGED lifecycle

NextRule == CheckUsage

SpecRule == InitRule /\ [][NextRule]_vars

(***************************************************************************)
(* Concurrent invocations of run_fact_check_agent.  What an invocation     *)
(* keeps in local variables is its own; the module globals of              *)
(* agent.py:21-23 are common to all of them.  Each invocation makes tool   *)
(* calls (agent.py:104-106, 129-131), and a tool call goes through         *)
(* get_mcp_session step by step: the test of the global, the assignment of *)
(* a new ClientSession to it, the await of initialize(), then call_tool on *)
(* the session it got.                                                     *)
(***************************************************************************)
RunIds == 1..MaxRuns

\* A ClientSession object: who constructed it and how far it got.
NewSession(r) ==
    [by |-> r, initialized |-> FALSE, close_attempted |-> FALSE, closed |-> FALSE]

\* The value of the global mcp_session when it refers to object id of ss.
StatusOf(ss, id) ==
    IF id = 0 THEN "None"
    ELSE IF ss[id].initialized THEN "initialized"
    ELSE "created"

InitConcurrent ==
    /\ pc = "concurrent"
    /\ runs = [r \in RunIds |->
                 [at |-> "idle", session |-> 0, left |-> MaxToolCalls, used |-> {}]]
    /\ mcp_session = "None"
    /\ mcp_process = "None"
    /\ sessions = <<>>
    /\ session_id = 0
    /\ calls = <<>>
    /\ steps = <<>>
    /\ invoked = <<>>
    /\ stop = "none"
    /\ has_steps = FALSE
    /\ output = <<>>
    /\ result = NoResult
    /\ failure = NoFailure
    /\ arg = <<>>
    /\ ret = <<>>

RunFrame ==
    UNCHANGED <<pc, steps, invoked, stop, has_steps, output, result, failure, arg, ret,
                mcp_process, calls>>

\* The tool call has ended: the next one, or the end of the invocation.
AfterCall(run) ==
    [run EXCEPT !.left = @ - 1, !.session = 0,
                !.at = IF run.left = 1 THEN "done" ELSE "idle"]

\* get_mcp_session, lines 62-63: if mcp_session is not None: return mcp_session
TestSession(r) ==
    /\ runs[r].at = "idle"
    /\ runs' = [runs EXCEPT ![r] =
                  IF session_id # 0
                  THEN [@ EXCEPT !.at = "holding", !.session = session_id]
                  ELSE [@ EXCEPT !.at = "saw_none"]]
    /\ UNCHANGED <<mcp_session, sessions, session_id>>
    /\ RunFrame

\* lines 65-70: mcp_session = ClientSession(transport)
CreateSession(r) ==
    /\ runs[r].at = "saw_none"
    /\ sessions' = Append(sessions, NewSession(r))
    /\ session_id' = Len(sessions) + 1
    /\ mcp_session' = StatusOf(sessions', session_id')
    /\ runs' = [runs EXCEPT ![r] = [@ EXCEPT !.at = "initializing",
                                              !.session = Len(sessions) + 1]]
    /\ RunFrame

\* line 71: await mcp_session.initialize() on the object the global refers to
\* now; when it raises, the tool's except clause ends the tool call.
InitializeSession(r, ok) ==
    /\ runs[r].at = "initializing"
    /\ sessions' = [sessions EXCEPT ![session_id].initialized = @ \/ ok]
    /\ mcp_session' = StatusOf(sessions', session_id)
    /\ runs' = [runs EXCEPT ![r] =
                  IF ok THEN [@ EXCEPT !.at = "holding", !.session = session_id]
                  ELSE AfterCall(@)]
    /\ UNCHANGED session_id
    /\ RunFrame

\* lines 106, 131: session.call_tool(...) on the session the invocation got
CallTool(r) ==
    /\ runs[r].at = "holding"
    /\ runs' = [runs EXCEPT ![r] =
                  AfterCall([@ EXCEPT !.used = @ \cup {runs[r].session}])]
    /\ UNCHANGED <<mcp_session, sessions, session_id>>
    /\ RunFrame

NextConcurrent ==
    \/ \E r \in RunIds : TestSession(r)
    \/ \E r \in RunIds : CreateSession(r)
    \/ \E r \in RunIds : \E ok \in BOOLEAN : InitializeSession(r, ok)
    \/ \E r \in RunIds : CallTool(r)

SpecConcurrent == InitConcurrent /\ [][NextConcurrent]_vars

(***************************************************************************)
(* The code after invoke on its own: agent.py:234-314 applied to steps     *)
(* whose observations are not what the server sends.                       *)
(***************************************************************************)
\* Observations of the two tools: a text that is no JSON, and results with
\* entries that are no dictionary or have no url or an empty one.
MalformedSteps ==
    {[tool |-> "web_search", observation |-> TextObs("<html>")],
     [tool |-> "web_search",
      observation |-> JsonObs(NoKey, TRUE,
                        <<Rec("a", "ua"), NotADict, Rec("c", ""), Rec("d", NoKey)>>)],
     [tool |-> "news_search", observation |-> TextObs("")],
     [tool |-> "news_search",
      observation |-> JsonObs(NoKey, TRUE, <<NotADict, Rec("b", "ub")>>)],
     [tool |-> "news_search", observation |-> JsonObs(NoKey, TRUE, <<Rec("e", "")>>)]}

MalformedRuns == UNION {[1..n -> MalformedSteps] : n \in 0..MaxRunLen}

InitMalformed ==
    /\ pc = "process"
    /\ arg \in MalformedRuns
    /\ ret = [pc |-> "", result |-> NoResult, failure |-> NoFailure]
    /\ steps = <<>>
    /\ invoked = <<>>
    /\ mcp_session = "None"
    /\ stop = "none"
    /\ has_steps = TRUE
    /\ output = <<"evidence">>
    /\ result = NoResult
    /\ failure = NoFailure
    /\ LifecycleIdle

ProcessSteps ==
    /\ pc = "process"
    /\ ret' = Respond(output, arg)
    /\ pc' = "processed"
    /\ UNCHANGED <<steps, invoked, mcp_session, stop, has_steps, output, result, failure, arg>>
    /\ UNCHANGED lifecycle

NextMalformed == ProcessSteps

SpecMalformed == InitMalformed /\ [][NextMalformed]_vars

(***************************************************************************)
(* One life of the application: the lifespan of main.py:8-16 starts the    *)
(* server subprocess, then get_mcp_session is called by the tools of the   *)
(* runs, runs end, close_mcp_session may be called, and the lifespan stops *)
(* the server.  Each call is one step; calls is the log of the calls.      *)
(***************************************************************************)
Logged(op, outcome, returned) ==
    [op |-> op, outcome |-> outcome, before |-> session_id,
     returned |-> returned, after |-> session_id']

Started == calls # <<>>
Stopped == calls # <<>> /\ Last(calls).op = "stop_mcp_server"
Serving == Started /\ ~Stopped /\ Len(calls) < MaxCalls

InitLifecycle ==
    /\ pc = "lifecycle"
    /\ mcp_session = "None"
    /\ mcp_process = "None"
    /\ sessions = <<>>
    /\ session_id = 0
    /\ calls = <<>>
    /\ runs = <<>>
    /\ steps = <<>>
    /\ invoked = <<>>
    /\ stop = "none"
    /\ has_steps = FALSE
    /\ output = <<>>
    /\ result = NoResult
    /\ failure = NoFailure
    /\ arg = <<>>
    /\ ret = <<>>

LifecycleFrame ==
    UNCHANGED <<pc, steps, invoked, stop, has_steps, output, result, failure, arg, ret, runs>>

\* start_mcp_server: Popen raises, or the subprocess is running or has exited
\* when poll() is called.
StartOutcomes == {"running", "exited", "popen_failed"}

StartServer(outcome) ==
    /\ ~Started
    /\ mcp_process' = IF outcome = "popen_failed" THEN mcp_process ELSE outcome
    /\ UNCHANGED <<mcp_session, sessions, session_id>>
    /\ calls' = Append(calls, Logged("start_mcp_server", outcome, 0))
    /\ LifecycleFrame

\* stop_mcp_server: terminate() and wait(timeout=5) inside try / except: pass.
\* The subprocess exits in time, or wait raises TimeoutExpired, or terminate raises.
StopOutcomes == {"exits", "wait_timeout", "terminate_failed"}

StopServer(outcome) ==
    /\ Serving
    /\ mcp_process' = IF mcp_process = "running" /\ outcome = "exits"
                      THEN "exited" ELSE mcp_process
    /\ UNCHANGED <<mcp_session, sessions, session_id>>
    /\ calls' = Append(calls, Logged("stop_mcp_server", outcome, 0))
    /\ LifecycleFrame

\* get_mcp_session as one call; ok tells whether initialize() completes.
GetSession(ok) ==
    /\ Serving
    /\ IF session_id # 0
       THEN /\ ok
            /\ UNCHANGED <<mcp_session, sessions, session_id>>
            /\ calls' = Append(calls, Logged("get_mcp_session", "returned", session_id))
       ELSE /\ sessions' = Append(sessions, [NewSession(0) EXCEPT !.initialized = ok])
            /\ session_id' = Len(sessions) + 1
            /\ mcp_session' = SessionAfterGet(mcp_session,
                                 Call("q", IF ok THEN "ok" ELSE "init_failed", <<>>))
            /\ calls' = Append(calls,
                           IF ok THEN Logged("get_mcp_session", "returned", Len(sessions) + 1)
                           ELSE Logged("get_mcp_session", "raised", 0))
    /\ UNCHANGED mcp_process
    /\ LifecycleFrame

\* The global after close_mcp_session: the assignment of None follows close()
\* inside the try, so it is skipped when close() raises.
SessionAfterClose(id, ok) == IF ok THEN 0 ELSE id

\* close_mcp_session; ok tells whether close() completes.
CloseSession(ok) ==
    /\ Serving
    /\ IF session_id = 0
       THEN /\ ok
            /\ UNCHANGED <<mcp_session, sessions, session_id>>
       ELSE /\ sessions' = [sessions EXCEPT ![session_id].close_attempted = TRUE,
                                            ![session_id].closed = ok]
            /\ session_id' = SessionAfterClose(session_id, ok)
            /\ mcp_session' = StatusOf(sessions', session_id')
    /\ calls' = Append(calls, Logged("close_mcp_session",
                                     IF ok THEN "returned" ELSE "close_raised", 0))
    /\ UNCHANGED mcp_process
    /\ LifecycleFrame

\* run_fact_check_agent ends: it returns the dictionary (agent.py:309-314) or
\* raises (316-319); on no path does it touch the session or the subprocess.
RunEnds == {"result", "ValueError", "Exception"}

EndRun(how) ==
    /\ Serving
    /\ UNCHANGED <<mcp_session, sessions, session_id, mcp_process>>
    /\ calls' = Append(calls, Logged("run_fact_check_agent", how, 0))
    /\ LifecycleFrame

NextLifecycle ==
    \/ \E outcome \in StartOutcomes : StartServer(outcome)
    \/ \E outcome \in StopOutcomes : StopServer(outcome)
    \/ \E ok \in BOOLEAN : GetSession(ok)
    \/ \E ok \in BOOLEAN : CloseSession(ok)
    \/ \E how \in RunEnds : EndRun(how)

SpecLifecycle == InitLifecycle /\ [][NextLifecycle]_vars

(***************************************************************************)
(* Properties.                                                             *)
(***************************************************************************)
\* The tools whose function ran at least once in this run.
ToolsRun == {invoked[i].tool : i \in 1..Len(invoked)}

\* The run has ended through the code after invoke (not through an exception
\* of the backend or of a tool).
Finished == stop \in {"final", "limit"}

NoDuplicateUrls(sources) ==
    \A i, j \in 1..Len(sources) : i # j => sources[i].url # sources[j].url

\* C1: a run that returns a result has run web_search and news_search at
\* least once each, and the tools_used it returns are exactly these two.
C1_ResultOnlyAfterBothTools ==
    pc = "returned" =>
        /\ ToolNames \subseteq ToolsRun
        /\ {result.tools_used[i] : i \in 1..Len(result.tools_used)} = ToolNames

C1_Witness ==
    /\ pc = "returned"
    /\ stop = "final"
    /\ ToolsRun = ToolNames
    /\ Len(result.tools_used) = 2

\* A final answer of the model arrives while a tool has not run yet.
EarlyFinalAnswer ==
    /\ stop = "none"
    /\ stop' = "final"
    /\ ~(ToolNames \subseteq ToolsRun)

\* C2 (as claimed): a final answer given before both tools ran does not end
\* the run: a corrective observation is appended and the loop goes on.
C2_EarlyFinalAnswerContinues ==
    [][EarlyFinalAnswer =>
          /\ pc' = "running"
          /\ Len(steps') = Len(steps) + 1]_vars

\* C2 (amended): a final answer given before both tools ran ends the run at
\* once with the ValueError of the hard rule: no observation is appended, no
\* further turn is taken and no result is returned.
C2_EarlyFinalAnswerRaises ==
    [][EarlyFinalAnswer =>
          /\ pc' = "raised"
          /\ failure'.kind = "ValueError"
          /\ steps' = steps
          /\ result' = NoResult]_vars

C2_Witness ==
    /\ stop = "final"
    /\ pc = "raised"
    /\ ToolsRun = {"web_search"}
    /\ has_steps

\* C3: a run that stops on the iteration limit ends in a failure, never in a
\* returned result.
C3_LimitIsFailure ==
    stop = "limit" => (pc = "raised" /\ failure.kind = "ValueError")

\* C4: the sources of a returned result hold no url twice and are at most 10.
C4_SourcesUniqueAndCapped ==
    pc = "returned" =>
        /\ Len(result.sources) <= MaxSources
        /\ NoDuplicateUrls(result.sources)

\* A result whose all_sources held a url twice and more than 10 distinct urls.
C4_Witness ==
    /\ pc = "returned"
    /\ LET scan == ScanSteps(ScanInit, steps)
           all_sources == AllSources(scan.web_results, scan.news_results)
       IN  /\ Len(UniqueFrom(all_sources, {}, <<>>)) > MaxSources
           /\ ~NoDuplicateUrls(all_sources)
    /\ Len(result.sources) = MaxSources

\* Case folding and phrases for the statements about the verdict, written
\* without Upper and Contains.
LowerToken(t) ==
    CASE t \in {"VERDICT:", "Verdict:"} -> "verdict:"
      [] t \in {"Likely True", "LIKELY TRUE"} -> "likely true"
      [] t \in {"Likely False", "likely false"} -> "likely false"
      [] OTHER -> t

HasPhrase(text, phrase) == \E i \in 1..Len(text) : LowerToken(text[i]) = phrase

\* "verdict:" followed by the label, with one space or none between them
HasMarked(text, label) ==
    \E i \in 1..Len(text) :
        /\ LowerToken(text[i]) = "verdict:"
        /\ \/ i + 1 <= Len(text) /\ LowerToken(text[i + 1]) = label
           \/ /\ i + 2 <= Len(text)
              /\ text[i + 1] = " "
              /\ LowerToken(text[i + 2]) = label

\* C5 (as claimed): Likely False when the text has "likely false" in any
\* case, else Likely True when it has "likely true", else Uncertain.
C5_FalsePrecedence ==
    pc = "classified" =>
        ret = IF HasPhrase(output, "likely false") THEN "Likely False"
              ELSE IF HasPhrase(output, "likely true") THEN "Likely True"
              ELSE "Uncertain"

\* C5 (amended): only a phrase that follows the marker "VERDICT:" (any case,
\* one space or none) counts, and Likely True has precedence: Likely True when
\* the text has a marked "likely true", else Likely False when it has a marked
\* "likely false", else Uncertain.
C5_MarkedTruePrecedence ==
    pc = "classified" =>
        /\ ret = "Likely True" <=> HasMarked(output, "likely true")
        /\ ret = "Likely False" <=>
               (HasMarked(output, "likely false") /\ ~HasMarked(output, "likely true"))
        /\ ret = "Uncertain" <=>
               (~HasMarked(output, "likely false") /\ ~HasMarked(output, "likely true"))

C5_Witness ==
    /\ pc = "classified"
    /\ HasMarked(output, "likely true")
    /\ HasMarked(output, "likely false")
    /\ ret = "Likely True"

\* The invocation this step made failed with an exception: a timeout or a
\* transport error of the client, of the session or of the server's request.
ToolFailed ==
    /\ Len(invoked') = Len(invoked) + 1
    /\ Last(invoked').call.kind \in {"call_failed", "init_failed", "http_failed"}

\* C6: a failed invocation reaches the loop as a JSON text whose "error" is
\* the message of the exception; no exception leaves the tool and the
\* executor goes on with the step recorded.
C6_ToolFailureIsObservation ==
    [][ToolFailed =>
          /\ pc' = "running"
          /\ failure' = NoFailure
          /\ Len(steps') = Len(steps) + 1
          /\ Last(steps').tool = Last(invoked').tool
          /\ Last(steps').observation.json
          /\ Last(steps').observation.error = ErrorMessage(Last(invoked').call.kind)
          /\ Last(steps').observation.error # ""]_vars

C6_Witness ==
    /\ pc = "running"
    /\ Len(invoked) > 0
    /\ Last(invoked).call.kind = "call_failed"
    /\ Len(steps) = Len(invoked)
    /\ Last(steps).observation.error = "timed out"

\* Some invocation of the tool returned a record that carries a url.
ReturnedUrl(tool) ==
    \E i \in 1..Len(steps) :
        /\ steps[i].tool = tool
        /\ \E k \in 1..Len(steps[i].observation.results) :
               HasUrl(steps[i].observation.results[k])

\* C7: when both tools returned a record with a url at some invocation and
\* the model gives its final answer, the run returns a result with a valid
\* verdict, both tools in tools_used, and sources non-empty without duplicates.
C7_ResultAfterBothReturnedRecords ==
    (stop = "final" /\ \A tool \in ToolNames : ReturnedUrl(tool)) =>
        /\ pc = "returned"
        /\ result.verdict \in {"Likely True", "Likely False", "Uncertain"}
        /\ ToolNames \subseteq {result.tools_used[i] : i \in 1..Len(result.tools_used)}
        /\ result.sources # <<>>
        /\ NoDuplicateUrls(result.sources)

\* The records with a url of all search observations, in the order observed.
RECURSIVE Discovered(_)
Discovered(isteps) ==
    IF isteps = <<>> THEN <<>>
    ELSE LET st == Head(isteps)
             found == IF st.tool = "web_search"
                      THEN SourcesOf(ObsResults(st.observation), "web")
                      ELSE IF st.tool = "news_search"
                      THEN SourcesOf(ObsResults(st.observation), "news")
                      ELSE <<>>
         IN  found \o Discovered(Tail(isteps))

RECURSIVE FirstOccurrences(_, _)
FirstOccurrences(sources, seen) ==
    IF sources = <<>> THEN <<>>
    ELSE IF Head(sources).url \in seen
         THEN FirstOccurrences(Tail(sources), seen)
         ELSE <<Head(sources)>>
              \o FirstOccurrences(Tail(sources), seen \cup {Head(sources).url})

Prefix(s, n) == SubSeq(s, 1, IF Len(s) < n THEN Len(s) ELSE n)

\* C8: the sources are the records of all invocations, first occurrence of
\* each url, in the order observed, cut to 10.
C8_SourcesAreAllObservations ==
    pc = "returned" =>
        result.sources = Prefix(FirstOccurrences(Discovered(steps), {}), MaxSources)

\* Some invocation of the tool succeeded: its observation carries no error.
SucceededOnce(tool) ==
    \E i \in 1..Len(steps) : steps[i].tool = tool /\ Succeeded(steps[i].observation)

\* C9 (as claimed): a result is returned only when each tool succeeded once.
C9_UsedMeansSucceeded ==
    pc = "returned" => \A tool \in ToolNames : SucceededOnce(tool)

\* C9 (amended): a tool counts as used as soon as the returned steps hold an
\* invocation of it, failed or not: a finished run returns a result exactly
\* when the steps came back and each tool was invoked at least once.
C9_UsedMeansInvoked ==
    Finished =>
        (pc = "returned" <=>
            (has_steps /\ \A tool \in ToolNames :
                              \E i \in 1..Len(invoked) : invoked[i].tool = tool))

\* A result although no invocation of web_search succeeded.
C9_Witness ==
    /\ pc = "returned"
    /\ ~SucceededOnce("web_search")
    /\ SucceededOnce("news_search")

\* C10: building the sources again from the sources built returns them
\* unchanged.
C10_NormalizeIdempotent ==
    pc = "renormalized" => ret[2] = ret[1]

\* The input had a duplicate, entries without url and more than 10 urls.
C10_Witness ==
    /\ pc = "renormalized"
    /\ Len(ret[1]) = MaxSources
    /\ \E i \in 1..Len(arg.web_results) : ~HasUrl(arg.web_results[i])
    /\ ~NoDuplicateUrls(AllSources(arg.web_results, arg.news_results))
    /\ \E i \in 1..Len(ret[1]) : ret[1][i].type = "news"

\* The two tools among the tools of a list of steps.
Capabilities(isteps) == {isteps[i].tool : i \in 1..Len(isteps)} \cap ToolNames

\* C11: the usage check depends only on the set of distinct tools among the
\* steps: two lists of steps with the same set get the same outcome, whatever
\* the order and the number of the steps.
C11_SameToolsSameOutcome ==
    (pc = "checked" /\ Capabilities(arg.first) = Capabilities(arg.second))
        => ret[1] = ret[2]

\* Both orders, one of them with a tool repeated, both accepted.
C11_Witness ==
    /\ pc = "checked"
    /\ Len(arg.first) = 2 /\ arg.first[1].tool = "news_search"
    /\ Len(arg.second) = 3 /\ arg.second[1].tool = "web_search"
    /\ arg.second[3].tool = "web_search"
    /\ Capabilities(arg.first) = ToolNames
    /\ Capabilities(arg.second) = ToolNames
    /\ ret = <<"", "">>

\* C12: a turn the executor cannot parse does not end the run: no run fails
\* with the parser's exception, the turn is recorded as a step with an error
\* observation and the run goes on, and the steps never exceed max_iterations.
C12_UnparseableTurnContinues ==
    [][/\ failure'.kind # "OutputParserException"
       /\ (steps' = Append(steps, ParseErrorStep)
              => /\ pc' = "running"
                 /\ Last(steps').observation = TextObs("Invalid or incomplete response")
                 /\ Len(steps') <= max_iterations)]_vars

\* A run that returned a result after a first turn that could not be parsed.
C12_Witness ==
    /\ pc = "returned"
    /\ Len(steps) = 3
    /\ steps[1] = ParseErrorStep
    /\ steps[2].tool \in ToolNames

\* C13: a request for a tool that is neither web_search nor news_search ends
\* the run with an error: it is never recorded as a step with an observation
\* in a run that goes on or has returned.
C13_UnknownToolIsFatal ==
    (\E i \in 1..Len(steps) : steps[i].tool \in UnknownNames) => pc = "raised"

\* C14: concurrent invocations share no mutable state: the global mcp_session
\* is written by at most one of them, and an invocation only calls tools on
\* a session it constructed itself.
C14_NoSharedSession ==
    /\ Cardinality({sessions[i].by : i \in 1..Len(sessions)}) <= 1
    /\ \A r \in DOMAIN runs : \A i \in runs[r].used : sessions[i].by = r

WellFormedUrls(isteps) ==
    UNION {{isteps[i].observation.results[j].url :
                j \in {k \in 1..Len(isteps[i].observation.results) :
                          /\ isteps[i].observation.results[k].dict
                          /\ isteps[i].observation.results[k].url \notin {"", NoKey}}} :
           i \in {n \in 1..Len(isteps) : isteps[n].observation.json}}

\* C16: every source of a returned result has a non-empty url, taken from a
\* dictionary of a JSON observation, and malformed output is skipped: steps
\* with both tools give a result whatever their observations hold.
C16_MalformedOutputSkipped ==
    pc = "processed" =>
        /\ (Capabilities(arg) = ToolNames <=> ret.pc = "returned")
        /\ ret.failure.kind \in {"", "ValueError"}
        /\ \A k \in 1..Len(ret.result.sources) :
              /\ ret.result.sources[k].url \notin {"", NoKey}
              /\ ret.result.sources[k].url \in WellFormedUrls(arg)

\* A result from a web observation with an entry that is no dictionary and
\* entries without url, and a news observation that is no JSON.
C16_Witness ==
    /\ pc = "processed"
    /\ Len(arg) = 2
    /\ arg[1].observation.json /\ Len(arg[1].observation.results) = 4
    /\ ~arg[2].observation.json /\ arg[2].tool = "news_search"
    /\ ret.pc = "returned"
    /\ ret.result.sources = <<[title |-> "a", url |-> "ua", type |-> "web"]>>

\* C17: get_mcp_session never returns, and never leaves in mcp_session, a
\* session whose initialize() did not complete, and the call after one that
\* raised constructs a new session.
C17_OnlyInitializedSessions ==
    /\ session_id # 0 => sessions[session_id].initialized
    /\ \A i \in 1..Len(calls) :
          calls[i].op = "get_mcp_session" =>
            /\ calls[i].returned # 0 => sessions[calls[i].returned].initialized
            /\ calls[i].outcome = "raised" => calls[i].after = 0

\* C18: once close_mcp_session has returned, mcp_session is None, also when
\* close() raised, so that no later get_mcp_session returns a session on which
\* close was attempted; and while mcp_session is not None, get_mcp_session
\* returns that same session and constructs no other.
C18_CloseClearsSession ==
    \A i \in 1..Len(calls) :
        /\ calls[i].op = "close_mcp_session" => calls[i].after = 0
        /\ calls[i].op = "get_mcp_session" =>
              /\ calls[i].before # 0 =>
                    calls[i].returned = calls[i].before /\ calls[i].after = calls[i].before
              /\ \A j \in 1..(i - 1) :
                    (calls[j].op = "close_mcp_session" /\ calls[j].before # 0)
                        => calls[i].returned # calls[j].before

\* C19: every handle is released: once the lifespan has stopped the server,
\* the subprocess of start_mcp_server is not running, whatever terminate and
\* wait did, and every session get_mcp_session constructed has been closed,
\* however the runs ended.
C19_ReleasedAfterShutdown ==
    Stopped =>
        /\ mcp_process # "running"
        /\ \A i \in 1..Len(sessions) : sessions[i].closed

=============================================================================
